---- MODULE Spec2Model ----
(***************************************************************************)
(* Model of the scoring and aggregation engine of nfl_betting_tracker.py:  *)
(* american_profit, bet_points, weekly_points, season_standings and        *)
(* cumulative_by_week.                                                     *)
(*                                                                         *)
(* Real numbers (Python floats) are modelled as exact rationals            *)
(* [n |-> numerator, d |-> denominator] in lowest terms with d > 0.        *)
(* A Python call either returns a value or raises: a scalar result is      *)
(* [exc |-> "none", val |-> v] or [exc |-> <exception name>, val |-> 0].   *)
(***************************************************************************)
EXTENDS Integers, Sequences, FiniteSets, TLC

VARIABLES
    args,   \* the scalar arguments (odds, result, is_triple, stake) of a direct call
    ret,    \* per scalar function: what its call returned or raised
    df,     \* the wager DataFrame handed to the aggregators (rows + optional 'points' column)
    out,    \* per aggregator: the DataFrame its call returned or the exception it raised
    players,        \* the players table of nfl_bets.db
    bets,           \* the bets table of nfl_bets.db
    next_bet_id,    \* the next AUTOINCREMENT id of the bets table
    next_player_id, \* the next AUTOINCREMENT id of the players table
    cache_players,  \* st.cache_data entry of get_players()
    cache_bets      \* st.cache_data entries of get_bets(...), one per argument list

engine == <<args, ret, df, out>>
app == <<players, bets, next_bet_id, next_player_id, cache_players, cache_bets>>
vars == <<args, ret, df, out, players, bets, next_bet_id, next_player_id,
          cache_players, cache_bets>>

\* Largest number of wager rows in the DataFrame handed to an aggregator.
MaxRows == 3

-----------------------------------------------------------------------------
(* Exact rational arithmetic standing for Python float arithmetic.          *)

Abs(x) == IF x < 0 THEN -x ELSE x

RECURSIVE GCD(_, _)
GCD(a, b) == IF b = 0 THEN a ELSE GCD(b, a % b)

Frac(n, d) ==
    LET s == IF d < 0 THEN -1 ELSE 1
        g == GCD(Abs(n), Abs(d))
    IN  [n |-> (s * n) \div g, d |-> (s * d) \div g]

Num(k) == [n |-> k, d |-> 1]
Zero == Num(0)
FAdd(a, b) == Frac(a.n * b.d + b.n * a.d, a.d * b.d)
FMul(a, b) == Frac(a.n * b.n, a.d * b.d)
FNeg(a) == [n |-> -a.n, d |-> a.d]
FLeq(a, b) == a.n * b.d <= b.n * a.d

\* A call that returned v, and a call that raised exception e.
Ok(v) == [exc |-> "none", val |-> v]
Raise(e) == [exc |-> e, val |-> Zero]

-----------------------------------------------------------------------------
(* Business logic: the two scalar functions.                                *)

\* A plausible slip: the favourite branch forgets abs().
american_profit_noabs(odds, stake) ==
    IF odds > 0 THEN Ok(FMul(stake, Frac(odds, 100)))
    ELSE IF odds = 0 THEN Raise("ZeroDivisionError")
    ELSE Ok(FMul(stake, Frac(100, odds)))

\* A plausible slip: zero odds guarded by returning 0 instead of dividing.
american_profit_zero(odds, stake) ==
    IF odds > 0 THEN Ok(FMul(stake, Frac(odds, 100)))
    ELSE IF odds = 0 THEN Ok(Zero)
    ELSE Ok(FMul(stake, Frac(100, Abs(odds))))

\* stake * (odds / 100) for positive odds, stake * (100 / abs(odds)) otherwise;
\* with odds = 0 the division 100 / abs(odds) raises ZeroDivisionError.
american_profit(odds, stake) ==
    IF odds > 0 THEN Ok(FMul(stake, Frac(odds, 100)))
    ELSE IF Abs(odds) = 0 THEN Raise("ZeroDivisionError")
    ELSE Ok(FMul(stake, Frac(100, Abs(odds))))

\* A plausible slip: a push is scored like a loss.
bet_points_pushloss(odds, result, is_triple, stake) ==
    IF result = "pending" THEN Ok(Zero)
    ELSE IF result \in {"push", "loss"} THEN
        IF is_triple THEN Ok(Num(-100)) ELSE Ok(FNeg(stake))
    ELSE IF result = "win" THEN
        LET profit == american_profit(odds, stake)
        IN  IF profit.exc # "none" THEN profit
            ELSE IF is_triple THEN Ok(FMul(profit.val, Num(3))) ELSE profit
    ELSE Ok(Zero)

\* A plausible slip: the triple loss cap is applied as a floor on the stake.
bet_points_capmin(odds, result, is_triple, stake) ==
    IF result = "pending" THEN Ok(Zero)
    ELSE IF result = "push" THEN Ok(Zero)
    ELSE IF result = "win" THEN
        LET profit == american_profit(odds, stake)
        IN  IF profit.exc # "none" THEN profit
            ELSE IF is_triple THEN Ok(FMul(profit.val, Num(3))) ELSE profit
    ELSE IF result = "loss" THEN
        IF is_triple /\ FLeq(Num(100), stake) THEN Ok(Num(-100)) ELSE Ok(FNeg(stake))
    ELSE Ok(Zero)

\* A plausible slip: the cap is applied to every loss.
bet_points_capall(odds, result, is_triple, stake) ==
    IF result = "pending" THEN Ok(Zero)
    ELSE IF result = "push" THEN Ok(Zero)
    ELSE IF result = "win" THEN
        LET profit == american_profit(odds, stake)
        IN  IF profit.exc # "none" THEN profit
            ELSE IF is_triple THEN Ok(FMul(profit.val, Num(3))) ELSE profit
    ELSE IF result = "loss" THEN Ok(Num(-100))
    ELSE Ok(Zero)

\* A plausible slip: the triple multiplier is 2.
bet_points_double(odds, result, is_triple, stake) ==
    IF result = "pending" THEN Ok(Zero)
    ELSE IF result = "push" THEN Ok(Zero)
    ELSE IF result = "win" THEN
        LET profit == american_profit(odds, stake)
        IN  IF profit.exc # "none" THEN profit
            ELSE IF is_triple THEN Ok(FMul(profit.val, Num(2))) ELSE profit
    ELSE IF result = "loss" THEN
        IF is_triple THEN Ok(Num(-100)) ELSE Ok(FNeg(stake))
    ELSE Ok(Zero)

\* The if / elif chain of bet_points; an exception of american_profit propagates.
bet_points(odds, result, is_triple, stake) ==
    IF result = "pending" THEN Ok(Zero)
    ELSE IF result = "push" THEN Ok(Zero)
    ELSE IF result = "win" THEN
        LET profit == american_profit(odds, stake)
        IN  IF profit.exc # "none" THEN profit
            ELSE IF is_triple THEN Ok(FMul(profit.val, Num(3))) ELSE profit
    ELSE IF result = "loss" THEN
        IF is_triple THEN Ok(Num(-100)) ELSE Ok(FNeg(stake))
    ELSE Ok(Zero)

-----------------------------------------------------------------------------
(* The SQLite tables and the st.cache_data caches of the application. A    *)
(* bets row is modelled by id, week, player_id, is_triple and result, a     *)
(* players row by id and name; description, odds, stake, color and the      *)
(* timestamps are stored and passed through but decide nothing here.        *)

\* Largest bets id handed out under SpecApp.
MaxBets == 2
\* Largest players id handed out under SpecApp.
MaxPlayerId == 3
\* Largest bets id handed out under SpecEnter.
MaxEntered == 6

\* The names tried (the first two seed players).
AppNames == {"Logan", "Caroline"}
FormNames == {"Logan", "Caroline", "James"}
\* The week tried: the first week without seed bets.
AppWeeks == {3}
\* The results tried in the forms.
AppResults == {"pending", "win"}
\* The odds tried in the bet form: invalid and valid.
FormOdds == {0, -110}

\* No value for an optional argument of get_bets.
None == 0

\* The state after init_database(): the seed players; of the seed bets none
\* is in the weeks modelled.
InitDatabase ==
    /\ players = {[id |-> 1, name |-> "Logan"], [id |-> 2, name |-> "Caroline"]}
    /\ bets = {}
    /\ next_bet_id = 1
    /\ next_player_id = 3
    /\ cache_players = [hit |-> FALSE, rows |-> {}]
    /\ cache_bets = [k \in [week : AppWeeks \cup {None},
                            player_id : 1..MaxPlayerId \cup {None}] |->
                         [hit |-> FALSE, rows |-> {}]]

-----------------------------------------------------------------------------
(* Direct calls of the scalar functions on arguments drawn from bounded     *)
(* sets.                                                                    *)

\* American odds tried, zero (invalid) included.
OddsValues == {-200, -150, -120, -110, 0, 100, 105, 320}
\* Stakes tried: whole and fractional, below, at and above the cap of 100.
StakeValues == {Num(1), Frac(25, 2), Num(50), Num(100), Num(250)}
\* The four statuses of the application plus two that are not statuses.
ResultValues == {"pending", "win", "loss", "push", "void", ""}
ValidResults == {"pending", "win", "loss", "push"}

NoArgs == [odds |-> 0, result |-> "", is_triple |-> FALSE, stake |-> Zero]
NotCalled == Raise("not called")
NoRet == [american_profit |-> NotCalled, bet_points |-> NotCalled]
EmptyDF == [rows |-> <<>>, has_points |-> FALSE, points |-> <<>>]
NoTable == [exc |-> "not called", columns |-> <<>>, rows |-> <<>>]
NoOut == [weekly_points |-> NoTable, season_standings |-> NoTable,
          cumulative_by_week |-> NoTable]

Called(r) == r.exc # "not called"

InitScoring ==
    /\ args \in [odds : OddsValues, result : ResultValues,
                 is_triple : BOOLEAN, stake : StakeValues]
    /\ ret = NoRet
    /\ df = EmptyDF
    /\ out = NoOut
    /\ InitDatabase

CallAmericanProfit ==
    /\ ~Called(ret.american_profit)
    /\ ret' = [ret EXCEPT !.american_profit = american_profit(args.odds, args.stake)]
    /\ UNCHANGED <<args, df, out>>
    /\ UNCHANGED app

CallBetPoints ==
    /\ ~Called(ret.bet_points)
    /\ ret' = [ret EXCEPT !.bet_points =
                  bet_points(args.odds, args.result, args.is_triple, args.stake)]
    /\ UNCHANGED <<args, df, out>>
    /\ UNCHANGED app

NextScoring == CallAmericanProfit \/ CallBetPoints

SpecScoring == InitScoring /\ [][NextScoring]_vars

-----------------------------------------------------------------------------
(* The wager rows the persistence layer hands over: bets joined with the    *)
(* player's name and color, ordered by week, player name and id.            *)

\* The first two seed players of init_database.
PlayerIds == {1, 2}
Players ==
    [id \in PlayerIds |->
        IF id = 1 THEN [name |-> "Logan", color |-> "#e74c3c"]
        ELSE [name |-> "Caroline", color |-> "#3498db"]]

\* Position of a player name under ORDER BY p.name.
NameRank(name) == IF name = "Caroline" THEN 1 ELSE 2

Weeks == {1, 2}

\* Wagers tried, one or more for each branch of bet_points: odds, stake,
\* is_triple (stored as 0 / 1) and result.
Wagers ==
    { [american_odds |-> -150, stake |-> Num(100), is_triple |-> 0, result |-> "win"],
      [american_odds |-> 0,    stake |-> Num(100), is_triple |-> 0, result |-> "win"],
      [american_odds |-> -120, stake |-> Num(50),  is_triple |-> 0, result |-> "loss"],
      [american_odds |-> 110,  stake |-> Num(250), is_triple |-> 1, result |-> "loss"],
      [american_odds |-> -105, stake |-> Num(100), is_triple |-> 0, result |-> "push"],
      [american_odds |-> 100,  stake |-> Num(100), is_triple |-> 1, result |-> "pending"] }

\* ORDER BY b.week, p.name (b.id grows with the position).
RowOrdered(a, b) ==
    \/ a.week < b.week
    \/ a.week = b.week /\ NameRank(a.player_name) <= NameRank(b.player_name)

\* One more row of get_bets()'s result: a bet joined with its player.
LoadRow ==
    /\ \A f \in DOMAIN out : ~Called(out[f])
    /\ Len(df.rows) < MaxRows
    /\ \E w \in Weeks, p \in PlayerIds, t \in Wagers :
          LET row == [id |-> Len(df.rows) + 1, week |-> w, player_id |-> p,
                      american_odds |-> t.american_odds, stake |-> t.stake,
                      is_triple |-> t.is_triple, result |-> t.result,
                      player_name |-> Players[p].name, color |-> Players[p].color]
          IN  /\ df.rows # <<>> => RowOrdered(df.rows[Len(df.rows)], row)
              /\ df' = [df EXCEPT !.rows = Append(@, row)]
    /\ UNCHANGED <<args, ret, out>>
    /\ UNCHANGED app

-----------------------------------------------------------------------------
(* pandas and numpy operations the aggregators use.                         *)

\* bool(row['is_triple'])
Bool(x) == x # 0

\* df.apply(lambda row: bet_points(...), axis=1): one call per row.
ApplyPoints(rows) ==
    [i \in DOMAIN rows |->
        bet_points(rows[i].american_odds, rows[i].result,
                   Bool(rows[i].is_triple), rows[i].stake)]

\* The exception of the first row whose bet_points call raises, "none" if none does.
ApplyExc(calls) ==
    IF \A i \in DOMAIN calls : calls[i].exc = "none" THEN "none"
    ELSE calls[CHOOSE i \in DOMAIN calls :
                  /\ calls[i].exc # "none"
                  /\ \A j \in DOMAIN calls : j < i => calls[j].exc = "none"].exc

\* The values of the new 'points' column.
PointValues(calls) == [i \in DOMAIN calls |-> calls[i].val]

\* df['points'] = ...: the column is added to (or replaced in) the caller's frame.
WithPoints(frame, calls) ==
    [frame EXCEPT !.has_points = TRUE, !.points = PointValues(calls)]

\* Series.sum() over the rows with index in idx.
RECURSIVE SumOver(_, _)
SumOver(col, idx) ==
    IF idx = {} THEN Zero
    ELSE LET i == CHOOSE j \in idx : TRUE
         IN  FAdd(col[i], SumOver(col, idx \ {i}))

\* Series.round(1): numpy rounds x * 10 to the nearest integer, halves to even.
Round1(x) ==
    LET t == 10 * x.n
        q == t \div x.d
        r == t % x.d
        k == IF 2 * r < x.d THEN q
             ELSE IF 2 * r > x.d THEN q + 1
             ELSE IF q % 2 = 0 THEN q ELSE q + 1
    IN  Frac(k, 10)

\* Lexicographic order of group keys (tuples of integers of one length).
RECURSIVE KeyLess(_, _)
KeyLess(a, b) ==
    /\ a # <<>>
    /\ \/ a[1] < b[1]
       \/ a[1] = b[1] /\ KeyLess(Tail(a), Tail(b))

\* groupby sorts the groups by key: the set S of rows as a sequence in the
\* order of their keys key[row].
RECURSIVE SortedBy(_, _)
SortedBy(S, key) ==
    IF S = {} THEN <<>>
    ELSE LET m == CHOOSE x \in S : \A y \in S : ~KeyLess(key[y], key[x])
         IN  <<m>> \o SortedBy(S \ {m}, key)

\* The sequences that list every element of the set S once.
Orderings(S) ==
    {q \in [1..Cardinality(S) -> S] : \A x \in S : \E i \in DOMAIN q : q[i] = x}

\* The projection df[cols] of one row.
Project(row, cols) == [c \in cols |-> row[c]]

-----------------------------------------------------------------------------
(* The three aggregators.                                                   *)

WeeklyColumns == <<"player_id", "player_name", "week", "points">>
SeasonColumns == <<"player_name", "total_bets", "wins", "losses", "pushes", "season_points">>
CumulativeColumns == <<"player_name", "week", "cumulative_points", "color">>

Table(columns, rows) == [exc |-> "none", columns |-> columns, rows |-> rows]
Raised(e) == [exc |-> e, columns |-> <<>>, rows |-> <<>>]

\* A plausible slip: the empty case returns a bare pd.DataFrame().
EmptyResult_bare(columns) == Table(<<>>, <<>>)

\* pd.DataFrame(columns=[...]): no rows, the columns of the normal result.
EmptyResult(columns) == Table(columns, <<>>)

\* A plausible slip: groups whose points sum to zero are dropped.
WeeklyTotals_nonzero(rows, points) ==
    LET keys == {[player_id |-> rows[i].player_id, player_name |-> rows[i].player_name,
                  week |-> rows[i].week] : i \in DOMAIN rows}
        key == [k \in keys |-> <<k.player_id, NameRank(k.player_name), k.week>>]
        sorted == SortedBy(keys, key)
        totals == [g \in DOMAIN sorted |->
                      LET k == sorted[g]
                          idx == {i \in DOMAIN rows :
                                     /\ rows[i].player_id = k.player_id
                                     /\ rows[i].player_name = k.player_name
                                     /\ rows[i].week = k.week}
                      IN  [player_id |-> k.player_id, player_name |-> k.player_name,
                           week |-> k.week, points |-> SumOver(points, idx)]]
    IN  SelectSeq(totals, LAMBDA r : r.points # Zero)

\* groupby(['player_id', 'player_name', 'week'])['points'].sum().reset_index()
WeeklyTotals(rows, points) ==
    LET keys == {[player_id |-> rows[i].player_id, player_name |-> rows[i].player_name,
                  week |-> rows[i].week] : i \in DOMAIN rows}
        key == [k \in keys |-> <<k.player_id, NameRank(k.player_name), k.week>>]
        sorted == SortedBy(keys, key)
    IN  [g \in DOMAIN sorted |->
            LET k == sorted[g]
                idx == {i \in DOMAIN rows :
                           /\ rows[i].player_id = k.player_id
                           /\ rows[i].player_name = k.player_name
                           /\ rows[i].week = k.week}
            IN  [player_id |-> k.player_id, player_name |-> k.player_name,
                 week |-> k.week, points |-> SumOver(points, idx)]]

\* groupby(['player_id', 'player_name']).agg(...) followed by the losses,
\* pushes and season_points columns: the standings before the final sort.
\* A plausible slip: the rounded column is never built and the raw sum is shown.
SeasonGrouped_unrounded(rows, points) ==
    LET keys == {[player_id |-> rows[i].player_id, player_name |-> rows[i].player_name]
                    : i \in DOMAIN rows}
        key == [k \in keys |-> <<k.player_id, NameRank(k.player_name)>>]
        sorted == SortedBy(keys, key)
        loss_counts(p) == Cardinality({i \in DOMAIN rows :
                              rows[i].result = "loss" /\ rows[i].player_id = p})
        push_counts(p) == Cardinality({i \in DOMAIN rows :
                              rows[i].result = "push" /\ rows[i].player_id = p})
    IN  [g \in DOMAIN sorted |->
            LET k == sorted[g]
                idx == {i \in DOMAIN rows :
                           /\ rows[i].player_id = k.player_id
                           /\ rows[i].player_name = k.player_name}
            IN  [player_id |-> k.player_id, player_name |-> k.player_name,
                 total_bets |-> Cardinality(idx),
                 points |-> SumOver(points, idx),
                 wins |-> Cardinality({i \in idx : rows[i].result = "win"}),
                 losses |-> loss_counts(k.player_id),
                 pushes |-> push_counts(k.player_id),
                 season_points |-> SumOver(points, idx)]]

\* A plausible slip: total_bets counts only the settled (non-pending) rows.
SeasonGrouped_settled(rows, points) ==
    LET keys == {[player_id |-> rows[i].player_id, player_name |-> rows[i].player_name]
                    : i \in DOMAIN rows}
        key == [k \in keys |-> <<k.player_id, NameRank(k.player_name)>>]
        sorted == SortedBy(keys, key)
        loss_counts(p) == Cardinality({i \in DOMAIN rows :
                              rows[i].result = "loss" /\ rows[i].player_id = p})
        push_counts(p) == Cardinality({i \in DOMAIN rows :
                              rows[i].result = "push" /\ rows[i].player_id = p})
    IN  [g \in DOMAIN sorted |->
            LET k == sorted[g]
                idx == {i \in DOMAIN rows :
                           /\ rows[i].player_id = k.player_id
                           /\ rows[i].player_name = k.player_name}
            IN  [player_id |-> k.player_id, player_name |-> k.player_name,
                 total_bets |-> Cardinality({i \in idx : rows[i].result # "pending"}),
                 points |-> SumOver(points, idx),
                 wins |-> Cardinality({i \in idx : rows[i].result = "win"}),
                 losses |-> loss_counts(k.player_id),
                 pushes |-> push_counts(k.player_id),
                 season_points |-> Round1(SumOver(points, idx))]]

SeasonGrouped(rows, points) ==
    LET keys == {[player_id |-> rows[i].player_id, player_name |-> rows[i].player_name]
                    : i \in DOMAIN rows}
        key == [k \in keys |-> <<k.player_id, NameRank(k.player_name)>>]
        sorted == SortedBy(keys, key)
        loss_counts(p) == Cardinality({i \in DOMAIN rows :
                              rows[i].result = "loss" /\ rows[i].player_id = p})
        push_counts(p) == Cardinality({i \in DOMAIN rows :
                              rows[i].result = "push" /\ rows[i].player_id = p})
    IN  [g \in DOMAIN sorted |->
            LET k == sorted[g]
                idx == {i \in DOMAIN rows :
                           /\ rows[i].player_id = k.player_id
                           /\ rows[i].player_name = k.player_name}
            IN  [player_id |-> k.player_id, player_name |-> k.player_name,
                 total_bets |-> Cardinality(idx),
                 points |-> SumOver(points, idx),
                 wins |-> Cardinality({i \in idx : rows[i].result = "win"}),
                 losses |-> loss_counts(k.player_id),
                 pushes |-> push_counts(k.player_id),
                 season_points |-> Round1(SumOver(points, idx))]]

\* A plausible slip: ascending=False is forgotten.
SortedDescending_ascending(tbl) ==
    {q \in Orderings({tbl[g] : g \in DOMAIN tbl}) :
        \A i \in DOMAIN q : i > 1 => FLeq(q[i - 1].season_points, q[i].season_points)}

\* sort_values('season_points', ascending=False) with the default, unstable
\* sort: any arrangement of the rows in which season_points never increases.
SortedDescending(tbl) ==
    {q \in Orderings({tbl[g] : g \in DOMAIN tbl}) :
        \A i \in DOMAIN q : i > 1 => FLeq(q[i].season_points, q[i - 1].season_points)}

\* A plausible slip: the running total is taken over the whole table instead of
\* within each player_id.
CumulativeTotals_leak(rows, points) ==
    LET keys == {[player_id |-> rows[i].player_id, player_name |-> rows[i].player_name,
                  color |-> rows[i].color, week |-> rows[i].week] : i \in DOMAIN rows}
        key == [k \in keys |-> <<k.player_id, k.week>>]
        sorted == SortedBy(keys, key)
        weekly == [g \in DOMAIN sorted |->
                      LET k == sorted[g]
                      IN  SumOver(points, {i \in DOMAIN rows :
                                              /\ rows[i].player_id = k.player_id
                                              /\ rows[i].player_name = k.player_name
                                              /\ rows[i].color = k.color
                                              /\ rows[i].week = k.week})]
    IN  [g \in DOMAIN sorted |->
            [player_id |-> sorted[g].player_id, player_name |-> sorted[g].player_name,
             color |-> sorted[g].color, week |-> sorted[g].week,
             cumulative_points |-> SumOver(weekly, 1..g)]]

\* A plausible slip: the groups stay in the order in which they first appear in
\* the input (no sort before the running total).
CumulativeTotals_unsorted(rows, points) ==
    LET keys == {[player_id |-> rows[i].player_id, player_name |-> rows[i].player_name,
                  color |-> rows[i].color, week |-> rows[i].week] : i \in DOMAIN rows}
        first(k) == CHOOSE i \in DOMAIN rows :
                        /\ rows[i].player_id = k.player_id /\ rows[i].week = k.week
                        /\ \A j \in DOMAIN rows :
                              (rows[j].player_id = k.player_id /\ rows[j].week = k.week)
                                  => i <= j
        key == [k \in keys |-> <<first(k)>>]
        sorted == SortedBy(keys, key)
        weekly == [g \in DOMAIN sorted |->
                      LET k == sorted[g]
                      IN  SumOver(points, {i \in DOMAIN rows :
                                              /\ rows[i].player_id = k.player_id
                                              /\ rows[i].player_name = k.player_name
                                              /\ rows[i].color = k.color
                                              /\ rows[i].week = k.week})]
    IN  [g \in DOMAIN sorted |->
            [player_id |-> sorted[g].player_id, player_name |-> sorted[g].player_name,
             color |-> sorted[g].color, week |-> sorted[g].week,
             cumulative_points |->
                SumOver(weekly, {h \in 1..g : sorted[h].player_id = sorted[g].player_id})]]

\* groupby(['player_id', 'player_name', 'color', 'week'])['points'].sum(),
\* sort_values(['player_id', 'week']), then groupby('player_id')['points'].cumsum():
\* the running total of the weekly sums within each player_id, in table order.
\* (name and color are functions of player_id, so both orders are by
\* player_id, then week.)
CumulativeTotals(rows, points) ==
    LET keys == {[player_id |-> rows[i].player_id, player_name |-> rows[i].player_name,
                  color |-> rows[i].color, week |-> rows[i].week] : i \in DOMAIN rows}
        key == [k \in keys |-> <<k.player_id, k.week>>]
        sorted == SortedBy(keys, key)
        weekly == [g \in DOMAIN sorted |->
                      LET k == sorted[g]
                      IN  SumOver(points, {i \in DOMAIN rows :
                                              /\ rows[i].player_id = k.player_id
                                              /\ rows[i].player_name = k.player_name
                                              /\ rows[i].color = k.color
                                              /\ rows[i].week = k.week})]
    IN  [g \in DOMAIN sorted |->
            [player_id |-> sorted[g].player_id, player_name |-> sorted[g].player_name,
             color |-> sorted[g].color, week |-> sorted[g].week,
             cumulative_points |->
                SumOver(weekly, {h \in 1..g : sorted[h].player_id = sorted[g].player_id})]]

\* weekly_totals[['player_name', 'week', 'cumulative_points', 'color']]
CumulativeRows(rows, calls) ==
    LET tbl == CumulativeTotals(rows, PointValues(calls))
    IN  [i \in DOMAIN tbl |->
            Project(tbl[i], {"player_name", "week", "cumulative_points", "color"})]

\* weekly_points(df): an empty frame returns at once; otherwise the points
\* column is written into the caller's frame and the weekly totals returned.
\* An exception of bet_points leaves the frame as it was.
WeeklyPointsCall ==
    /\ ~Called(out.weekly_points)
    /\ LET calls == ApplyPoints(df.rows)
       IN  IF df.rows = <<>>
           THEN /\ out' = [out EXCEPT !.weekly_points = EmptyResult(WeeklyColumns)]
                /\ df' = df
           ELSE IF ApplyExc(calls) # "none"
           THEN /\ out' = [out EXCEPT !.weekly_points = Raised(ApplyExc(calls))]
                /\ df' = df
           ELSE /\ out' = [out EXCEPT !.weekly_points =
                             Table(WeeklyColumns, WeeklyTotals(df.rows, PointValues(calls)))]
                /\ df' = WithPoints(df, calls)
    /\ UNCHANGED <<args, ret>>
    /\ UNCHANGED app

\* season_standings(df)
SeasonStandingsCall ==
    /\ ~Called(out.season_standings)
    /\ LET calls == ApplyPoints(df.rows)
       IN  IF df.rows = <<>>
           THEN /\ out' = [out EXCEPT !.season_standings = EmptyResult(SeasonColumns)]
                /\ df' = df
           ELSE IF ApplyExc(calls) # "none"
           THEN /\ out' = [out EXCEPT !.season_standings = Raised(ApplyExc(calls))]
                /\ df' = df
           ELSE /\ \E q \in SortedDescending(SeasonGrouped(df.rows, PointValues(calls))) :
                      out' = [out EXCEPT !.season_standings =
                                Table(SeasonColumns,
                                      [i \in DOMAIN q |->
                                          Project(q[i], {"player_name", "total_bets", "wins",
                                                         "losses", "pushes", "season_points"})])]
                /\ df' = WithPoints(df, calls)
    /\ UNCHANGED <<args, ret>>
    /\ UNCHANGED app

\* cumulative_by_week(df)
CumulativeByWeekCall ==
    /\ ~Called(out.cumulative_by_week)
    /\ LET calls == ApplyPoints(df.rows)
       IN  IF df.rows = <<>>
           THEN /\ out' = [out EXCEPT !.cumulative_by_week = EmptyResult(CumulativeColumns)]
                /\ df' = df
           ELSE IF ApplyExc(calls) # "none"
           THEN /\ out' = [out EXCEPT !.cumulative_by_week = Raised(ApplyExc(calls))]
                /\ df' = df
           ELSE /\ out' = [out EXCEPT !.cumulative_by_week =
                             Table(CumulativeColumns, CumulativeRows(df.rows, calls))]
                /\ df' = WithPoints(df, calls)
    /\ UNCHANGED <<args, ret>>
    /\ UNCHANGED app

Init ==
    /\ args = NoArgs
    /\ ret = NoRet
    /\ df = EmptyDF
    /\ out = NoOut
    /\ InitDatabase

Next ==
    \/ LoadRow
    \/ WeeklyPointsCall
    \/ SeasonStandingsCall
    \/ CumulativeByWeekCall

Spec == Init /\ [][Next]_vars

-----------------------------------------------------------------------------
(* cumulative_by_week on rows that arrive in any order.                     *)

\* The wagers tried there: a win at -150 (66.67), a lost stake of 50, a push.
OrderWagers == {t \in Wagers : t.american_odds # 0 /\ t.is_triple = 0}

\* One more row of the frame a caller passes, in whatever order.
LoadAnyRow ==
    /\ \A f \in DOMAIN out : ~Called(out[f])
    /\ Len(df.rows) < MaxRows
    /\ \E w \in Weeks, p \in PlayerIds, t \in OrderWagers :
          df' = [df EXCEPT !.rows = Append(@,
                    [id |-> Len(df.rows) + 1, week |-> w, player_id |-> p,
                     american_odds |-> t.american_odds, stake |-> t.stake,
                     is_triple |-> t.is_triple, result |-> t.result,
                     player_name |-> Players[p].name, color |-> Players[p].color])]
    /\ UNCHANGED <<args, ret, out>>
    /\ UNCHANGED app

NextAnyOrder == LoadAnyRow \/ CumulativeByWeekCall

SpecAnyOrder == Init /\ [][NextAnyOrder]_vars

-----------------------------------------------------------------------------
(* Database functions: each maps the tables before to the tables after.     *)

\* The largest number of bets a player may enter for a week.
MaxBetsPerWeek == 5

Miss == [hit |-> FALSE, rows |-> {}]
Hit(rows) == [hit |-> TRUE, rows |-> rows]

\* SELECT * FROM players
GetPlayersQuery(P) == P

\* SELECT b.*, p.name FROM bets b JOIN players p ON b.player_id = p.id
\* WHERE the conditions of the arguments that are not None.
GetBetsQuery(B, P, key) ==
    {[id |-> b.id, week |-> b.week, player_id |-> b.player_id,
      is_triple |-> b.is_triple, result |-> b.result, player_name |-> p.name] :
        <<b, p>> \in {x \in B \X P :
                        /\ x[1].player_id = x[2].id
                        /\ key.week # None => x[1].week = key.week
                        /\ key.player_id # None => x[1].player_id = key.player_id}}

\* The argument lists of get_bets in the handlers modelled: the week and the
\* player (enter_bets_tab) and every filter left at "All" (grade_results_tab).
EnterKey(w, p) == [week |-> w, player_id |-> p]
GradeKey == [week |-> None, player_id |-> None]

\* @st.cache_data: the value a call returns, the stored one if there is one.
CachedPlayers == IF cache_players.hit THEN cache_players.rows ELSE GetPlayersQuery(players)
CachedBets(key) ==
    IF cache_bets[key].hit THEN cache_bets[key].rows
    ELSE GetBetsQuery(bets, players, key)

\* INSERT INTO bets ...
insert_bet(B, id, week, player_id, is_triple, result) ==
    B \cup {[id |-> id, week |-> week, player_id |-> player_id,
             is_triple |-> IF is_triple THEN 1 ELSE 0, result |-> result]}

\* UPDATE bets SET ..., is_triple = ?, result = ? WHERE id = ?
update_bet(B, bet_id, is_triple, result) ==
    {IF b.id = bet_id
     THEN [b EXCEPT !.is_triple = IF is_triple THEN 1 ELSE 0, !.result = result]
     ELSE b : b \in B}

\* UPDATE bets SET result = ? WHERE id = ?
update_bet_result(B, bet_id, result) ==
    {IF b.id = bet_id THEN [b EXCEPT !.result = result] ELSE b : b \in B}

\* A plausible slip: only the players row is deleted, the bets stay.
delete_player_nocascade(db, player_id) ==
    [players |-> {p \in db.players : p.id # player_id}, bets |-> db.bets]

\* DELETE FROM bets WHERE player_id = ?; DELETE FROM players WHERE id = ?
delete_player(db, player_id) ==
    [players |-> {p \in db.players : p.id # player_id},
     bets |-> {b \in db.bets : b.player_id # player_id}]

\* DELETE FROM bets WHERE week = ?
reset_week(B, week) == {b \in B : b.week # week}

\* DELETE FROM bets
delete_all_bets(B) == {}

\* UPDATE players SET name = ? WHERE id = ?; the UNIQUE constraint on name
\* makes the statement fail when another player has the name.
NameTaken(P, player_id, name) ==
    /\ \E p \in P : p.id = player_id
    /\ \E p \in P : p.name = name /\ p.id # player_id
update_player_rows(P, player_id, name) ==
    {IF p.id = player_id THEN [p EXCEPT !.name = name] ELSE p : p \in P}

-----------------------------------------------------------------------------
(* The handlers of the application.                                         *)

\* enter_bets_tab with the form submitted: the players and the player's bets
\* of the week are read through the caches, the form is validated against
\* them and the bet inserted when there is no error.
EnterBetsSubmit ==
    /\ cache_players' = Hit(CachedPlayers)
    /\ IF CachedPlayers = {}
       THEN UNCHANGED <<players, bets, next_bet_id, next_player_id, cache_bets>>
       ELSE \E week \in AppWeeks, player \in CachedPlayers, american_odds \in FormOdds,
               checked \in BOOLEAN, result \in AppResults :
               LET key == EnterKey(week, player.id)
                   existing_bets == CachedBets(key)
                   has_triple == \E b \in existing_bets : b.is_triple = 1
                   bet_count == Cardinality(existing_bets)
                   \* st.checkbox(..., disabled=has_triple) stays unchecked
                   is_triple == checked /\ ~has_triple
                   errors == \/ american_odds = 0
                             \/ is_triple /\ has_triple
                             \/ bet_count >= MaxBetsPerWeek
               IN  /\ cache_bets' = [cache_bets EXCEPT ![key] = Hit(existing_bets)]
                   /\ IF errors
                      THEN UNCHANGED <<bets, next_bet_id>>
                      ELSE /\ bets' = insert_bet(bets, next_bet_id, week, player.id,
                                                 is_triple, result)
                           /\ next_bet_id' = next_bet_id + 1
                   /\ UNCHANGED <<players, next_player_id>>
    /\ UNCHANGED engine

\* grade_results_tab with the Update button of one listed bet pressed: the
\* bets listed are those the cache returns; no check is made on the edit.
GradeUpdate ==
    /\ CachedPlayers # {}
    /\ CachedBets(GradeKey) # {}
    /\ cache_players' = Hit(CachedPlayers)
    /\ cache_bets' = [cache_bets EXCEPT ![GradeKey] = Hit(CachedBets(GradeKey))]
    /\ \E bet \in CachedBets(GradeKey), is_triple \in BOOLEAN, result \in AppResults :
          bets' = update_bet(bets, bet.id, is_triple, result)
    /\ UNCHANGED <<players, next_bet_id, next_player_id>>
    /\ UNCHANGED engine

\* grade_results_tab with "Delete All Bets" pressed and confirmed; the button
\* is reached only when the cached reads are not empty.
GradeDeleteAll ==
    /\ CachedPlayers # {}
    /\ CachedBets(GradeKey) # {}
    /\ cache_players' = Hit(CachedPlayers)
    /\ cache_bets' = [cache_bets EXCEPT ![GradeKey] = Hit(CachedBets(GradeKey))]
    /\ bets' = delete_all_bets(bets)
    /\ UNCHANGED <<players, next_bet_id, next_player_id>>
    /\ UNCHANGED engine

\* admin_tab with the Update button of one listed player pressed:
\* update_player, which clears both caches after its commit; when the UPDATE
\* fails on the UNIQUE name the exception leaves before the caches are cleared.
AdminUpdatePlayer ==
    /\ CachedPlayers # {}
    /\ \E player \in CachedPlayers, name \in FormNames :
          IF NameTaken(players, player.id, name)
          THEN /\ cache_players' = Hit(CachedPlayers)
               /\ UNCHANGED <<players, cache_bets>>
          ELSE /\ players' = update_player_rows(players, player.id, name)
               /\ cache_players' = Miss
               /\ cache_bets' = [k \in DOMAIN cache_bets |-> Miss]
    /\ UNCHANGED <<bets, next_bet_id, next_player_id>>
    /\ UNCHANGED engine

InitApp ==
    /\ args = NoArgs
    /\ ret = NoRet
    /\ df = EmptyDF
    /\ out = NoOut
    /\ InitDatabase

NextApp ==
    \/ next_bet_id <= MaxBets /\ EnterBetsSubmit
    \/ GradeUpdate
    \/ GradeDeleteAll
    \/ AdminUpdatePlayer

SpecApp == InitApp /\ [][NextApp]_vars

\* Bet submissions alone.
NextEnter == next_bet_id <= MaxEntered /\ EnterBetsSubmit

SpecEnter == InitApp /\ [][NextEnter]_vars

-----------------------------------------------------------------------------
(* The database functions called directly, whatever the arguments; SQLite   *)
(* does not enforce the foreign key of bets unless asked to, so a bet may   *)
(* name a player that is not stored.                                        *)

\* insert_bet(week, player_id, ..., is_triple, result)
InsertBet ==
    /\ next_bet_id <= MaxBets
    /\ \E week \in AppWeeks, player_id \in 1..MaxPlayerId, is_triple \in BOOLEAN,
          result \in AppResults :
          bets' = insert_bet(bets, next_bet_id, week, player_id, is_triple, result)
    /\ next_bet_id' = next_bet_id + 1
    /\ UNCHANGED <<players, next_player_id, cache_players, cache_bets>>
    /\ UNCHANGED engine

\* update_bet(bet_id, ..., is_triple, result)
UpdateBet ==
    /\ \E bet_id \in 1..(next_bet_id - 1), is_triple \in BOOLEAN, result \in AppResults :
          bets' = update_bet(bets, bet_id, is_triple, result)
    /\ UNCHANGED <<players, next_bet_id, next_player_id, cache_players, cache_bets>>
    /\ UNCHANGED engine

\* update_bet_result(bet_id, result)
UpdateBetResult ==
    /\ \E bet_id \in 1..(next_bet_id - 1), result \in AppResults :
          bets' = update_bet_result(bets, bet_id, result)
    /\ UNCHANGED <<players, next_bet_id, next_player_id, cache_players, cache_bets>>
    /\ UNCHANGED engine

\* delete_player(player_id)
DeletePlayer(player_id) ==
    /\ players' = delete_player([players |-> players, bets |-> bets], player_id).players
    /\ bets' = delete_player([players |-> players, bets |-> bets], player_id).bets
    /\ UNCHANGED <<next_bet_id, next_player_id, cache_players, cache_bets>>
    /\ UNCHANGED engine

\* reset_week(week)
ResetWeek ==
    /\ \E week \in AppWeeks : bets' = reset_week(bets, week)
    /\ UNCHANGED <<players, next_bet_id, next_player_id, cache_players, cache_bets>>
    /\ UNCHANGED engine

\* delete_all_bets()
DeleteAllBets ==
    /\ bets' = delete_all_bets(bets)
    /\ UNCHANGED <<players, next_bet_id, next_player_id, cache_players, cache_bets>>
    /\ UNCHANGED engine

\* add_player(name): False when the name exists (IntegrityError), otherwise
\* the player is inserted under the next id.
AddPlayer ==
    /\ next_player_id <= MaxPlayerId
    /\ \E name \in AppNames :
          IF \E p \in players : p.name = name
          THEN UNCHANGED <<players, next_player_id>>
          ELSE /\ players' = players \cup {[id |-> next_player_id, name |-> name]}
               /\ next_player_id' = next_player_id + 1
    /\ UNCHANGED <<bets, next_bet_id, cache_players, cache_bets>>
    /\ UNCHANGED engine

\* update_player(player_id, name, color)
UpdatePlayer ==
    /\ \E player_id \in 1..MaxPlayerId, name \in AppNames :
          IF NameTaken(players, player_id, name)
          THEN UNCHANGED <<players, cache_players, cache_bets>>
          ELSE /\ players' = update_player_rows(players, player_id, name)
               /\ cache_players' = Miss
               /\ cache_bets' = [k \in DOMAIN cache_bets |-> Miss]
    /\ UNCHANGED <<bets, next_bet_id, next_player_id>>
    /\ UNCHANGED engine

NextStore ==
    \/ InsertBet
    \/ UpdateBet
    \/ UpdateBetResult
    \/ \E player_id \in 1..MaxPlayerId : DeletePlayer(player_id)
    \/ ResetWeek
    \/ DeleteAllBets
    \/ AddPlayer
    \/ UpdatePlayer

SpecStore == InitApp /\ [][NextStore]_vars

-----------------------------------------------------------------------------
(* Properties of the scalar functions, checked under SpecScoring.           *)

\* C1: for a positive stake and non-zero odds o, american_profit(o, stake) is
\* stake * o / 100 when o > 0 and stake * 100 / |o| when o < 0.
C1_ProfitFormula ==
    (Called(ret.american_profit) /\ args.odds # 0) =>
        ret.american_profit = Ok(IF args.odds > 0
                 THEN Frac(args.stake.n * args.odds, args.stake.d * 100)
                 ELSE Frac(args.stake.n * 100, args.stake.d * Abs(args.odds)))

\* american_profit(-150, 100) = 66.67 (200/3), the case of run_tests.
C1_Witness ==
    /\ Called(ret.american_profit)
    /\ args.odds = -150
    /\ args.stake = Num(100)
    /\ ret.american_profit = Ok(Frac(200, 3))

\* C2: american_profit with odds = 0 raises for every stake; it returns no
\* profit value.
C2_ZeroOddsFails ==
    (Called(ret.american_profit) /\ args.odds = 0) => ret.american_profit.exc # "none"

C2_Witness ==
    /\ Called(ret.american_profit)
    /\ args.odds = 0
    /\ args.stake = Num(50)
    /\ ret.american_profit.exc = "ZeroDivisionError"

\* C3: bet_points with a result outside {pending, win, loss, push} fails with
\* an error instead of returning a point value.
C3_UnknownResultFails ==
    (Called(ret.bet_points) /\ args.result \notin ValidResults) => ret.bet_points.exc # "none"

\* C4: bet_points is 0 for a pending or pushed wager, whatever the odds, the
\* stake and the triple flag.
C4_PendingPushZero ==
    (Called(ret.bet_points) /\ args.result \in {"pending", "push"}) => ret.bet_points = Ok(Zero)

C4_Witness ==
    /\ Called(ret.bet_points)
    /\ args.result = "push"
    /\ args.is_triple
    /\ args.odds = 0
    /\ args.stake = Num(250)
    /\ ret.bet_points = Ok(Zero)

\* C5: a lost triple wager scores exactly -100 for every stake and odds.
C5_TripleLossCapped ==
    (Called(ret.bet_points) /\ args.result = "loss" /\ args.is_triple) =>
        ret.bet_points = Ok(Num(-100))

\* A lost triple with a stake below the cap still costs 100.
C5_Witness ==
    /\ Called(ret.bet_points)
    /\ args.result = "loss"
    /\ args.is_triple
    /\ args.stake = Num(50)
    /\ ret.bet_points = Ok(Num(-100))

\* C6: a lost non-triple wager scores -stake for every stake and odds.
C6_LossIsMinusStake ==
    (Called(ret.bet_points) /\ args.result = "loss" /\ ~args.is_triple) =>
        ret.bet_points = Ok(FNeg(args.stake))

C6_Witness ==
    /\ Called(ret.bet_points)
    /\ args.result = "loss"
    /\ ~args.is_triple
    /\ args.stake = Num(250)
    /\ ret.bet_points = Ok(Num(-250))

\* C7: a won wager scores american_profit(odds, stake), times exactly 3 when
\* it is the triple, for non-zero odds and a positive stake.
C7_WinIsProfit ==
    (Called(ret.bet_points) /\ args.result = "win" /\ args.odds # 0) =>
        LET p == american_profit(args.odds, args.stake)
        IN  /\ p.exc = "none"
            /\ ret.bet_points = Ok(IF args.is_triple THEN Frac(3 * p.val.n, p.val.d) ELSE p.val)

\* bet_points(320, 'win', True, 100) = 960, the case of run_tests.
C7_Witness ==
    /\ Called(ret.bet_points)
    /\ args.result = "win"
    /\ args.is_triple
    /\ args.odds = 320
    /\ args.stake = Num(100)
    /\ ret.bet_points = Ok(Num(960))

-----------------------------------------------------------------------------
(* Properties of the aggregators, checked under Spec.                       *)

Returned(t) == t.exc = "none"

\* The rows of the input frame that belong to player p.
RowsOf(p) == {i \in DOMAIN df.rows : df.rows[i].player_id = p}

\* The participants with at least one wager in the input frame.
Participants == {p \in PlayerIds : RowsOf(p) # {}}

\* bet_points of input row i.
RowPoints(i) ==
    bet_points(df.rows[i].american_odds, df.rows[i].result,
               Bool(df.rows[i].is_triple), df.rows[i].stake).val

\* The sum of bet_points over the rows of player p among the first n rows,
\* taken row by row.
RECURSIVE PlayerSum(_, _)
PlayerSum(p, n) ==
    IF n = 0 THEN Zero
    ELSE IF df.rows[n].player_id = p THEN FAdd(PlayerSum(p, n - 1), RowPoints(n))
    ELSE PlayerSum(p, n - 1)

PlayerTotal(p) == PlayerSum(p, Len(df.rows))

\* y is x rounded to one decimal place: a multiple of 0.1 at most 0.05 from x.
IsRounded1(y, x) ==
    /\ 10 % y.d = 0
    /\ 20 * Abs(y.n * x.d - x.n * y.d) <= y.d * x.d

\* The rows of the standings that carry the name of player p.
StandingsOf(p) ==
    {i \in DOMAIN out.season_standings.rows :
        out.season_standings.rows[i].player_name = Players[p].name}

\* The largest week in which player p has a wager.
LastWeek(p) ==
    CHOOSE w \in Weeks :
        /\ \E i \in RowsOf(p) : df.rows[i].week = w
        /\ \A i \in RowsOf(p) : df.rows[i].week <= w

\* The rows of the trajectory of player p at p's last week.
TrajectoryEnd(p) ==
    {i \in DOMAIN out.cumulative_by_week.rows :
        /\ out.cumulative_by_week.rows[i].player_name = Players[p].name
        /\ out.cumulative_by_week.rows[i].week = LastWeek(p)}

\* C8: the season_points that season_standings reports for a participant with
\* at least one wager is the sum of bet_points over exactly that participant's
\* rows, rounded to one decimal place.
C8_SeasonPointsIsSum ==
    Returned(out.season_standings) =>
        \A p \in Participants :
            /\ StandingsOf(p) # {}
            /\ \A i \in StandingsOf(p) :
                  IsRounded1(out.season_standings.rows[i].season_points, PlayerTotal(p))

\* Logan wins at -150 (66.67) and loses a stake of 50: 16.7; Caroline's lost
\* triple is not counted for Logan.
C8_Witness ==
    /\ Returned(out.season_standings)
    /\ Participants = {1, 2}
    /\ PlayerTotal(1) = Frac(50, 3)
    /\ \E i \in StandingsOf(1) :
          out.season_standings.rows[i].season_points = Frac(167, 10)
    /\ \E i \in StandingsOf(2) :
          out.season_standings.rows[i].season_points = Num(-100)

\* C9 as stated: the cumulative_points at a participant's highest week equals
\* the season_points of the same participant on the same wagers.
C9_LastCumulativeIsSeason ==
    (Returned(out.season_standings) /\ Returned(out.cumulative_by_week)) =>
        \A p \in Participants :
            \A i \in TrajectoryEnd(p), j \in StandingsOf(p) :
                out.cumulative_by_week.rows[i].cumulative_points =
                    out.season_standings.rows[j].season_points

\* C9 amended: the cumulative_points at a participant's highest week, rounded
\* to one decimal place, equals the season_points of the same participant on
\* the same wagers (season_points is rounded, cumulative_points is not).
C9_LastCumulativeRoundsToSeason ==
    (Returned(out.season_standings) /\ Returned(out.cumulative_by_week)) =>
        \A p \in Participants :
            /\ TrajectoryEnd(p) # {}
            /\ StandingsOf(p) # {}
            /\ \A i \in TrajectoryEnd(p), j \in StandingsOf(p) :
                  Round1(out.cumulative_by_week.rows[i].cumulative_points) =
                      out.season_standings.rows[j].season_points

\* Logan has wagers in weeks 1 and 2 and Caroline in week 1; Logan's running
\* total ends at 16.67 and the standings show 16.7.
C9_Witness ==
    /\ Returned(out.season_standings)
    /\ Returned(out.cumulative_by_week)
    /\ Participants = {1, 2}
    /\ \E i, k \in RowsOf(1) : df.rows[i].week = 1 /\ df.rows[k].week = 2
    /\ \E i \in TrajectoryEnd(1) :
          out.cumulative_by_week.rows[i].cumulative_points = Frac(50, 3)
    /\ \E j \in StandingsOf(1) :
          out.season_standings.rows[j].season_points = Frac(167, 10)

\* The number of rows of player p whose result is r.
CountResult(p, r) == Cardinality({i \in RowsOf(p) : df.rows[i].result = r})

\* C10: season_standings returns exactly one row per participant with at least
\* one wager; total_bets counts all of the participant's rows (pending
\* included), wins, losses and pushes count the rows with that result, and
\* wins + losses + pushes <= total_bets.
C10_StandingsCounts ==
    Returned(out.season_standings) =>
        /\ Len(out.season_standings.rows) = Cardinality(Participants)
        /\ \A p \in Participants :
              /\ Cardinality(StandingsOf(p)) = 1
              /\ \A i \in StandingsOf(p) :
                    LET r == out.season_standings.rows[i]
                    IN  /\ r.total_bets = Cardinality(RowsOf(p))
                        /\ r.wins = CountResult(p, "win")
                        /\ r.losses = CountResult(p, "loss")
                        /\ r.pushes = CountResult(p, "push")
                        /\ r.wins + r.losses + r.pushes <= r.total_bets

\* Logan has a pending and a won wager, Caroline a pushed one.
C10_Witness ==
    /\ Returned(out.season_standings)
    /\ Len(out.season_standings.rows) = 2
    /\ \E i \in StandingsOf(1) :
          LET r == out.season_standings.rows[i]
          IN  r.total_bets = 2 /\ r.wins = 1 /\ r.losses = 0 /\ r.pushes = 0
    /\ \E i \in StandingsOf(2) :
          LET r == out.season_standings.rows[i]
          IN  r.total_bets = 1 /\ r.wins = 0 /\ r.losses = 0 /\ r.pushes = 1

\* C11: the rows of season_standings are in descending order of
\* season_points: each row's season_points is at least the next row's.
C11_StandingsDescending ==
    Returned(out.season_standings) =>
        \A i \in DOMAIN out.season_standings.rows :
            i > 1 => FLeq(out.season_standings.rows[i].season_points,
                          out.season_standings.rows[i - 1].season_points)

\* Caroline (0 points) is listed before Logan (-50), against the grouping order.
C11_Witness ==
    /\ Returned(out.season_standings)
    /\ Len(out.season_standings.rows) = 2
    /\ out.season_standings.rows[1].player_name = "Caroline"
    /\ out.season_standings.rows[1].season_points = Zero
    /\ out.season_standings.rows[2].player_name = "Logan"
    /\ out.season_standings.rows[2].season_points = Num(-50)

\* The player_id behind a name of the standings.
PlayerOfName(name) == CHOOSE p \in PlayerIds : Players[p].name = name

\* C12: the final sort is stable: rows with equal season_points keep the
\* order of the grouped table, which is the order of player_id.
C12_TiesKeepGroupingOrder ==
    Returned(out.season_standings) =>
        \A i, j \in DOMAIN out.season_standings.rows :
            (/\ i < j
             /\ out.season_standings.rows[i].season_points =
                    out.season_standings.rows[j].season_points)
            => PlayerOfName(out.season_standings.rows[i].player_name)
                   < PlayerOfName(out.season_standings.rows[j].player_name)

\* C13: no aggregator mutates its input: a step in which weekly_points,
\* season_standings or cumulative_by_week returns leaves the frame passed in
\* with the same rows, the same columns and the same values.
C13_InputUnchanged ==
    [][out' # out => df' = df]_vars

\* All input rows are of one week.
SingleWeek == \A i, j \in DOMAIN df.rows : df.rows[i].week = df.rows[j].week

\* The rows of the weekly totals of player p.
WeeklyOf(p) ==
    {i \in DOMAIN out.weekly_points.rows : out.weekly_points.rows[i].player_id = p}

\* C15: on wagers of a single week weekly_points returns exactly one row per
\* participant with at least one wager, whose points is the sum of bet_points
\* over that participant's rows (a zero sum still yields a row); a participant
\* without a wager has no row.
C15_WeeklyOneRowPerParticipant ==
    (Returned(out.weekly_points) /\ SingleWeek) =>
        /\ Len(out.weekly_points.rows) = Cardinality(Participants)
        /\ \A p \in PlayerIds :
              IF p \in Participants
              THEN /\ Cardinality(WeeklyOf(p)) = 1
                   /\ \A i \in WeeklyOf(p) :
                         out.weekly_points.rows[i].points = PlayerTotal(p)
              ELSE WeeklyOf(p) = {}

\* Logan's two wagers of the week, a push and a pending one, give a row with
\* 0 points; Caroline, without a wager, has no row.
C15_Witness ==
    /\ Returned(out.weekly_points)
    /\ SingleWeek
    /\ Participants = {1}
    /\ Len(df.rows) = 2
    /\ \E i \in WeeklyOf(1) : out.weekly_points.rows[i].points = Zero
    /\ WeeklyOf(2) = {}

\* C16: on an empty wager collection each aggregator returns, without
\* raising, an empty result that has its normal columns.
C16_EmptyInEmptyOut ==
    df.rows = <<>> =>
        /\ Called(out.weekly_points) =>
              /\ out.weekly_points.exc = "none"
              /\ out.weekly_points.rows = <<>>
              /\ out.weekly_points.columns = <<"player_id", "player_name", "week", "points">>
        /\ Called(out.season_standings) =>
              /\ out.season_standings.exc = "none"
              /\ out.season_standings.rows = <<>>
              /\ out.season_standings.columns =
                    <<"player_name", "total_bets", "wins", "losses", "pushes", "season_points">>
        /\ Called(out.cumulative_by_week) =>
              /\ out.cumulative_by_week.exc = "none"
              /\ out.cumulative_by_week.rows = <<>>
              /\ out.cumulative_by_week.columns =
                    <<"player_name", "week", "cumulative_points", "color">>

\* All three aggregators have been called on the empty frame.
C16_Witness ==
    /\ df.rows = <<>>
    /\ \A f \in DOMAIN out : Returned(out[f]) /\ out[f].rows = <<>>
    /\ Len(out.season_standings.columns) = 6

-----------------------------------------------------------------------------
(* Properties of cumulative_by_week on unordered input, checked under       *)
(* SpecAnyOrder.                                                            *)

\* The sum of bet_points over the rows of player p with week <= w among the
\* first n input rows, taken row by row.
RECURSIVE PlayerSumTo(_, _, _)
PlayerSumTo(p, w, n) ==
    IF n = 0 THEN Zero
    ELSE IF df.rows[n].player_id = p /\ df.rows[n].week <= w
         THEN FAdd(PlayerSumTo(p, w, n - 1), RowPoints(n))
         ELSE PlayerSumTo(p, w, n - 1)

\* The (player, week) pairs present in the input.
PresentWeeks == {<<df.rows[i].player_id, df.rows[i].week>> : i \in DOMAIN df.rows}

\* The rows of the trajectory for player p and week w.
TrajectoryAt(p, w) ==
    {i \in DOMAIN out.cumulative_by_week.rows :
        /\ out.cumulative_by_week.rows[i].player_name = Players[p].name
        /\ out.cumulative_by_week.rows[i].week = w}

\* C14: cumulative_by_week has one row for every participant p and week w
\* present, whose cumulative_points is the sum of bet_points over p's rows
\* with week <= w, whatever the order of the input rows; every permutation of
\* the input rows gives the same output.
C14_RunningTotalAnyOrder ==
    Returned(out.cumulative_by_week) =>
        /\ Len(out.cumulative_by_week.rows) = Cardinality(PresentWeeks)
        /\ \A pw \in PresentWeeks :
              /\ Cardinality(TrajectoryAt(pw[1], pw[2])) = 1
              /\ \A i \in TrajectoryAt(pw[1], pw[2]) :
                    out.cumulative_by_week.rows[i].cumulative_points =
                        PlayerSumTo(pw[1], pw[2], Len(df.rows))
        /\ \A q \in Orderings({df.rows[i] : i \in DOMAIN df.rows}) :
              CumulativeRows(q, ApplyPoints(q)) = out.cumulative_by_week.rows

\* Logan's week 2 win (66.67) comes before his week 1 loss (-50) in the input;
\* the trajectory is -50 at week 1 and 16.67 at week 2.
C14_Witness ==
    /\ Returned(out.cumulative_by_week)
    /\ Len(df.rows) >= 2
    /\ df.rows[1].player_id = 1 /\ df.rows[1].week = 2
    /\ df.rows[2].player_id = 1 /\ df.rows[2].week = 1
    /\ \E i \in TrajectoryAt(1, 1) :
          out.cumulative_by_week.rows[i].cumulative_points = Num(-50)
    /\ \E i \in TrajectoryAt(1, 2) :
          out.cumulative_by_week.rows[i].cumulative_points = Frac(50, 3)
-----------------------------------------------------------------------------
(* Properties of the stored data (SpecApp, SpecEnter, SpecStore).            *)

TriplesOf(player_id, week) ==
    {b \in bets : b.player_id = player_id /\ b.week = week /\ b.is_triple = 1}

BetsOf(player_id, week) == {b \in bets : b.player_id = player_id /\ b.week = week}

\* C17: whatever bets were submitted through enter_bets_tab and edited through
\* grade_results_tab, no player has two stored triple bets in one week.
C17_OneTriplePerWeek ==
    \A player_id \in 1..MaxPlayerId, week \in AppWeeks :
        Cardinality(TriplesOf(player_id, week)) <= 1
\* C18: a delete_player(p) step leaves neither player p nor a bet of p in the
\* tables, and the rows of every other player are those stored before.
C18_DeletePlayerCascades ==
    [][\A p \in 1..MaxPlayerId :
          DeletePlayer(p) =>
              /\ ~\E x \in players' : x.id = p
              /\ ~\E b \in bets' : b.player_id = p
              /\ {x \in players' : x.id # p} = {x \in players : x.id # p}
              /\ {b \in bets' : b.player_id # p} = {b \in bets : b.player_id # p}]_vars

\* Player 1 has been deleted after bets were stored, and player 2 is still
\* stored with a bet.
C18_Witness ==
    /\ ~\E x \in players : x.id = 1
    /\ ~\E b \in bets : b.player_id = 1
    /\ \E x \in players : x.id = 2
    /\ \E b \in bets : b.player_id = 2
    /\ next_bet_id > MaxBets
\* C19: whatever bets were submitted through enter_bets_tab, no player has
\* more than MaxBetsPerWeek stored bets in one week.
C19_AtMostFivePerWeek ==
    \A player_id \in 1..MaxPlayerId, week \in AppWeeks :
        Cardinality(BetsOf(player_id, week)) <= MaxBetsPerWeek

\* C20: the next call of get_players or get_bets, whatever its arguments,
\* returns the rows stored now: a result kept by the cache is the result the
\* query would give.
C20_ReadsObserveWrites ==
    /\ cache_players.hit => cache_players.rows = GetPlayersQuery(players)
    /\ \A key \in DOMAIN cache_bets :
          cache_bets[key].hit => cache_bets[key].rows = GetBetsQuery(bets, players, key)

====
